---- MODULE Spec2Model ----
(***************************************************************************)
(* Model of the syntax-highlighting engine of crates/ui                    *)
(* (src/crates/ui/src/highlighter/highlighter.rs): the SyntaxHighlighter   *)
(* state machine (new / update) and the pure span pipeline                 *)
(* (styles -> unique_styles -> merge_highlight_style).                     *)
(*                                                                         *)
(* Two widgets are modelled beside it: PopoverState of crates/ui           *)
(* (src/crates/ui/src/popover.rs) and the sample histories of             *)
(* PerformanceTab (src/crates/task-manager/src/performance_tab.rs).       *)
(*                                                                         *)
(* Seven specifications share the module:                                 *)
(*   Spec            the engine: construction, update and styles           *)
(*   SpecNormalizer  the span pipeline applied to bounded inputs           *)
(*   SpecFold        unique_styles alone, called on bounded inputs         *)
(*   SpecMatcher     match_styles on bounded lists of matches              *)
(*   SpecInjection   handle_injection on one match and bounded slices      *)
(*   SpecPopover     PopoverState: render, show, dismiss, toggle           *)
(*   SpecHistory     PerformanceTab::update_snapshot                       *)
(***************************************************************************)
EXTENDS Integers, Sequences, FiniteSets, TLC

VARIABLES
    \* ---- engine (struct SyntaxHighlighter) ----
    pc,                 \* "start" | "ready" | "panicked"
    language,           \* SyntaxHighlighter.language
    injection_queries,  \* key set of SyntaxHighlighter.injection_queries
    text,               \* SyntaxHighlighter.text (Rope), a sequence of characters
    tree,               \* SyntaxHighlighter.tree : Option<Tree>
    parse_count,        \* number of parser invocations made so far
    last_call,          \* record of the most recent new/update call and the state it found
    accepted_text,      \* text of the last update call not rejected by a parse failure
    \* ---- span pipeline (styles / unique_styles) ----
    total_range,        \* the requested range R
    matches,            \* the QueryMatches the cursor yields for the tree and R
    highlights,         \* Vec<HighlightItem> handed over by match_styles
    styles_arg,         \* Vec<(Range, HighlightStyle)> handed to unique_styles
    call,               \* "none" | "styles" | "unique_styles" | "renormalized"
    result,             \* the spans returned by the call
    result2,            \* unique_styles applied to result
    \* ---- popover (struct PopoverState) ----
    open,               \* PopoverState.open
    on_open_change,     \* PopoverState.on_open_change : Option<callback>
    dismiss_subscription, \* PopoverState._dismiss_subscription : Option<Subscription>
    rendered_open,      \* the `open` the handlers of the last render captured, if any
    callbacks,          \* the arguments on_open_change was invoked with, in order
    popover_call,       \* record of the most recent PopoverState call and the state it found
    \* ---- performance tab (struct PerformanceTab) ----
    cpu_history,        \* PerformanceTab.cpu_history : VecDeque<DataPoint>
    memory_history,     \* PerformanceTab.memory_history
    disk_history,       \* PerformanceTab.disk_history
    network_history,    \* PerformanceTab.network_history
    time_counter,       \* PerformanceTab.time_counter : u32
    current_snapshot,   \* PerformanceTab.current_snapshot : Option<SystemSnapshot>
    snapshots           \* every snapshot passed to update_snapshot, in arrival order

engine_vars == <<pc, language, injection_queries, text, tree, parse_count, last_call, accepted_text>>
pipeline_vars == <<total_range, matches, highlights, styles_arg, call, result, result2>>
popover_vars == <<open, on_open_change, dismiss_subscription, rendered_open, callbacks,
                  popover_call>>
tab_vars == <<cpu_history, memory_history, disk_history, network_history, time_counter,
              current_snapshot, snapshots>>
widget_vars == <<popover_vars, tab_vars>>
vars == <<pc, language, injection_queries, text, tree, parse_count, last_call, accepted_text,
          total_range, matches, highlights, styles_arg, call, result, result2,
          open, on_open_change, dismiss_subscription, rendered_open, callbacks, popover_call,
          cpu_history, memory_history, disk_history, network_history, time_counter,
          current_snapshot, snapshots>>

----------------------------------------------------------------------------
(* Bounds *)

MaxOff == 3         \* byte offsets of the enumerated spans and ranges are 0..MaxOff
MaxSpans == 2       \* length of the enumerated span lists
MaxTextLen == 2     \* length of the texts passed to update
MaxParses == 6      \* cap on the parse-invocation counter
MaxNodeOff == 2     \* byte length of the texts whose matches are enumerated
MaxMatches == 2     \* number of matches the cursor yields
MaxSubCaps == 2     \* number of captures the query of an injected slice yields

----------------------------------------------------------------------------
(* Ranges and styles *)

Rng(s, e) == [start |-> s, end |-> e]

Min(a, b) == IF a <= b THEN a ELSE b

Max(a, b) == IF a >= b THEN a ELSE b

\* gpui::HighlightStyle::default(): every attribute unset.
DefaultStyle ==
    [color |-> "None", font_weight |-> "None", font_style |-> "None",
     background_color |-> "None", underline |-> "None",
     strikethrough |-> "None", fade_out |-> "None"]

\* tests::color_style: the default style with only the colour set.
color_style(c) == [DefaultStyle EXCEPT !.color = c]

\* HighlightItem { range, name }
HighlightItem(r, n) == [range |-> r, name |-> n]

\* One element of Vec<(Range<usize>, HighlightStyle)>.
Styled(r, s) == [range |-> r, style |-> s]

\* The label -> style lookup (HighlightTheme::style), an Option modelled as
\* a set with at most one element.  "unknown" has no entry.
theme_style(name) ==
    CASE name = "keyword" -> {color_style("red")}
      [] name = "string"  -> {[DefaultStyle EXCEPT !.color = "green", !.font_style = "italic"]}
      [] OTHER            -> {}

\* Mutant: a label the theme does not know is shown in red.
unwrap_or_red(opt) == IF opt = {} THEN color_style("red") ELSE CHOOSE s \in opt : TRUE

\* Option<HighlightStyle>::unwrap_or_default()
unwrap_or_default(opt) == IF opt = {} THEN DefaultStyle ELSE CHOOSE s \in opt : TRUE

----------------------------------------------------------------------------
(* merge_highlight_style: other on top, attribute by attribute *)

\* Mutant: the style on top replaces the one below as a whole.
merge_replace(style, other) == other

merge_highlight_style(style, other) ==
    [color            |-> IF other.color # "None" THEN other.color ELSE style.color,
     font_weight      |-> IF other.font_weight # "None" THEN other.font_weight ELSE style.font_weight,
     font_style       |-> IF other.font_style # "None" THEN other.font_style ELSE style.font_style,
     background_color |-> IF other.background_color # "None" THEN other.background_color ELSE style.background_color,
     underline        |-> IF other.underline # "None" THEN other.underline ELSE style.underline,
     strikethrough    |-> IF other.strikethrough # "None" THEN other.strikethrough ELSE style.strikethrough,
     fade_out         |-> IF other.fade_out # "None" THEN other.fade_out ELSE style.fade_out]

----------------------------------------------------------------------------
(* unique_styles *)

SetMin(S) == CHOOSE m \in S : \A x \in S : m <= x

\* BTreeSet<usize>::into_iter().collect(): ascending, without duplicates.
RECURSIVE SortedSeq(_)
SortedSeq(S) == IF S = {} THEN <<>> ELSE <<SetMin(S)>> \o SortedSeq(S \ {SetMin(S)})

\* Mutant: the boundaries kept in insertion order in a Vec (no sort, no dedup).
RECURSIVE InsertionOrder(_, _)
InsertionOrder(styles, i) ==
    IF i > Len(styles) THEN <<>>
    ELSE <<styles[i].range.start, styles[i].range.end>> \o InsertionOrder(styles, i + 1)

intervals_unsorted(range, styles) == <<range.start, range.end>> \o InsertionOrder(styles, 1)

\* `intervals`: the range's endpoints and every span's start and end.
intervals(range, styles) ==
    SortedSeq({range.start, range.end}
              \cup {styles[i].range.start : i \in 1..Len(styles)}
              \cup {styles[i].range.end : i \in 1..Len(styles)})

\* `significant_intervals`: every span's end.
significant_intervals(styles) == {styles[i].range.end : i \in 1..Len(styles)}

\* Mutant: a span covers an interval only when it is strictly larger on both sides.
covers_strict(range, interval) == range.start < interval.start /\ interval.end < range.end

\* The containment test of the inner loop.
covers(range, interval) == range.start <= interval.start /\ interval.end <= range.end

\* The inner loop over `styles`: top is the Option<HighlightStyle> so far.
RECURSIVE top_style(_, _, _, _)
top_style(interval, styles, i, top) ==
    IF i > Len(styles) THEN top
    ELSE IF covers(styles[i].range, interval)
         THEN top_style(interval, styles, i + 1,
                        IF top = {} THEN {styles[i].style}
                        ELSE {merge_highlight_style(unwrap_or_default(top), styles[i].style)})
         ELSE top_style(interval, styles, i + 1, top)

\* The first loop: one entry per non-empty gap between consecutive boundaries.
RECURSIVE split_result(_, _, _)
split_result(ivs, styles, i) ==
    IF i + 1 > Len(ivs) THEN <<>>
    ELSE IF ivs[i] >= ivs[i + 1] THEN split_result(ivs, styles, i + 1)
         ELSE <<Styled(Rng(ivs[i], ivs[i + 1]),
                       unwrap_or_default(top_style(Rng(ivs[i], ivs[i + 1]), styles, 1, {})))>>
              \o split_result(ivs, styles, i + 1)

\* Mutant: adjacent equal styles are merged even across a span end.
can_merge_ignoring_significant(last, next, significant) ==
    last.range.end = next.range.start /\ last.style = next.style

\* The merge condition of the second loop.
can_merge(last, next, significant) ==
    /\ last.range.end = next.range.start
    /\ last.style = next.style
    /\ next.range.start \notin significant

\* The second loop: merge into the last output span or push.
RECURSIVE merge_result(_, _, _, _)
merge_result(res, significant, i, merged) ==
    IF i > Len(res) THEN merged
    ELSE IF Len(merged) > 0 /\ can_merge(merged[Len(merged)], res[i], significant)
         THEN merge_result(res, significant, i + 1,
                           [merged EXCEPT ![Len(merged)].range.end = res[i].range.end])
         ELSE merge_result(res, significant, i + 1, Append(merged, res[i]))

unique_styles(range, styles) ==
    IF Len(styles) = 0 THEN styles
    ELSE merge_result(split_result(intervals(range, styles), styles, 1),
                      significant_intervals(styles), 1, <<>>)

----------------------------------------------------------------------------
(* SyntaxHighlighter::styles, from the label spans match_styles returned *)

\* "Avoid start larger than end": clip a span to the requested range.
clip(node_range, range) ==
    LET s == Max(node_range.start, range.start)
        e == Min(node_range.end, range.end)
    IN  Rng(s, IF s > e THEN s ELSE e)

\* The loop over `highlights`.
styled_items(range, items) ==
    [i \in 1..Len(items) |->
        Styled(clip(items[i].range, range), unwrap_or_default(theme_style(items[i].name)))]

\* Mutant: the empty case falls through to unique_styles.
styles_no_default(range, items) == unique_styles(range, styled_items(range, items))

styles(range, items) ==
    IF Len(styled_items(range, items)) = 0
    THEN <<Styled(Rng(range.start, range.end), DefaultStyle)>>
    ELSE unique_styles(range, styled_items(range, items))

----------------------------------------------------------------------------
(* The span pipeline applied to bounded inputs *)

Offsets == 0..MaxOff

Ranges == {r \in [start : Offsets, end : Offsets] : r.start <= r.end}

Labels == {"keyword", "string", "unknown"}

Items == [range : Ranges, name : Labels]

ItemLists == UNION {[1..n -> Items] : n \in 0..MaxSpans}

\* The styled list a caller of unique_styles builds from label spans: no clipping.
themed(items) ==
    [i \in 1..Len(items) |-> Styled(items[i].range, unwrap_or_default(theme_style(items[i].name)))]

\* tests::test_unique_styles: the range, the input and the expected output.
TestRange == Rng(0, 65)

TestStyles ==
    <<Styled(Rng(2, 10), DefaultStyle),
      Styled(Rng(2, 10), DefaultStyle),
      Styled(Rng(5, 11), color_style("red")),
      Styled(Rng(2, 6), DefaultStyle),
      Styled(Rng(10, 15), color_style("green")),
      Styled(Rng(15, 30), DefaultStyle),
      Styled(Rng(29, 35), color_style("blue")),
      Styled(Rng(35, 40), color_style("green")),
      Styled(Rng(45, 60), color_style("blue"))>>

TestExpected ==
    <<Styled(Rng(0, 5), DefaultStyle),
      Styled(Rng(5, 6), color_style("red")),
      Styled(Rng(6, 10), color_style("red")),
      Styled(Rng(10, 11), color_style("green")),
      Styled(Rng(11, 15), color_style("green")),
      Styled(Rng(15, 29), DefaultStyle),
      Styled(Rng(29, 30), color_style("blue")),
      Styled(Rng(30, 35), color_style("blue")),
      Styled(Rng(35, 40), color_style("green")),
      Styled(Rng(40, 45), DefaultStyle),
      Styled(Rng(45, 60), color_style("blue")),
      Styled(Rng(60, 65), DefaultStyle)>>

PipelineIdle ==
    /\ total_range = Rng(0, 0)
    /\ matches = <<>>
    /\ highlights = <<>>
    /\ styles_arg = <<>>
    /\ call = "none"
    /\ result = <<>>
    /\ result2 = <<>>

\* SyntaxHighlighter::styles on the label spans of the state.
Styles ==
    /\ call = "none"
    /\ call' = "styles"
    /\ result' = styles(total_range, highlights)
    /\ UNCHANGED <<total_range, matches, highlights, styles_arg, result2>>
    /\ UNCHANGED engine_vars
    /\ UNCHANGED widget_vars

\* A direct call of unique_styles, as tests::assert_unique_styles makes it.
UniqueStyles ==
    /\ call = "none"
    /\ call' = "unique_styles"
    /\ result' = unique_styles(total_range, styles_arg)
    /\ UNCHANGED <<total_range, matches, highlights, styles_arg, result2>>
    /\ UNCHANGED engine_vars
    /\ UNCHANGED widget_vars

\* unique_styles applied to its own output.
Renormalize ==
    /\ call = "unique_styles"
    /\ call' = "renormalized"
    /\ result2' = unique_styles(total_range, result)
    /\ UNCHANGED <<total_range, matches, highlights, styles_arg, result>>
    /\ UNCHANGED engine_vars
    /\ UNCHANGED widget_vars

----------------------------------------------------------------------------
(* The language registry and the parser, the engine's collaborators *)

\* LanguageRegistry::singleton(): the registered configurations.  The
\* plain-text pseudo-language "text" is always registered, with a grammar
\* that loads and empty queries.  grammar_ok: Parser::set_language succeeds;
\* query_ok: the combined query compiles; highlights_ok: the highlights
\* query alone compiles.
LanguageRegistry ==
    [n \in {"text", "rust", "html", "css", "javascript", "badgrammar", "badquery"} |->
        [name |-> n,
         grammar_ok |-> n # "badgrammar",
         query_ok |-> n # "badquery",
         highlights_ok |-> n \notin {"javascript", "badquery"},
         injection_languages |-> IF n = "html" THEN {"css", "javascript", "nolang"} ELSE {}]]

\* The names a caller may pass to SyntaxHighlighter::new.
LangNames == {"text", "rust", "html", "badgrammar", "badquery", "nolang"}

\* LanguageRegistry::language(name): Option<config>.
registry_language(name) ==
    IF name \in DOMAIN LanguageRegistry THEN {LanguageRegistry[name]} ELSE {}

\* The element of a non-empty Option.
unwrap(opt) == CHOOSE x \in opt : TRUE

\* Parser::parse of a text: the tree of that text.
parse(t) == [src |-> t]

\* tree_sitter::InputEdit; texts are single-line, so a position is (0, byte).
InputEdit(s, o, n) ==
    [start_byte |-> s, old_end_byte |-> o, new_end_byte |-> n,
     start_position |-> <<0, s>>, old_end_position |-> <<0, o>>,
     new_end_position |-> <<0, n>>]

Chars == {"a", "b"}

Texts == UNION {[1..n -> Chars] : n \in 0..MaxTextLen}

\* The edit descriptors of a caller: any start, old end and new end with
\* start <= old end and start <= new end.
EditBytes ==
    {b \in (0..MaxTextLen) \X (0..MaxTextLen) \X (0..MaxTextLen) : b[1] <= b[2] /\ b[1] <= b[3]}

Edits == {InputEdit(b[1], b[2], b[3]) : b \in EditBytes}

----------------------------------------------------------------------------
(* SyntaxHighlighter::build_combined_injections_query and ::new *)

\* The injection_queries map: one highlights query per injectable language
\* that is registered and whose highlights query compiles.
build_injection_queries(config) ==
    {n \in config.injection_languages :
        registry_language(n) # {} /\ unwrap(registry_language(n)).highlights_ok}

\* Result<Self>: ok, or the error that ended the build.
build_combined_injections_query(lang) ==
    IF registry_language(lang) = {}
    THEN [ok |-> FALSE, err |-> "not registered", language |-> "", injection_queries |-> {}]
    ELSE LET config == unwrap(registry_language(lang)) IN
         IF ~config.grammar_ok
         THEN [ok |-> FALSE, err |-> "parse set_language", language |-> "", injection_queries |-> {}]
         ELSE IF ~config.query_ok
         THEN [ok |-> FALSE, err |-> "new query", language |-> "", injection_queries |-> {}]
         ELSE [ok |-> TRUE, err |-> "", language |-> config.name,
               injection_queries |-> build_injection_queries(config)]

\* Mutant: the build error is handed to the caller, no fallback.
new_without_fallback(lang) == build_combined_injections_query(lang)

\* SyntaxHighlighter::new: fall back to "text"; the fallback is unwrapped.
new(lang) ==
    IF build_combined_injections_query(lang).ok
    THEN build_combined_injections_query(lang)
    ELSE build_combined_injections_query("text")

----------------------------------------------------------------------------
(* SyntaxHighlighter::update *)

\* Mutant: the early return on equal text is missing.
text_eq_never(self_text, t) == FALSE

\* `self.text.eq(text)`
text_eq(self_text, t) == self_text = t

\* Mutant: without a descriptor the old tree is reused as it is.
default_edit_none(t) ==
    [start_byte |-> 0, old_end_byte |-> 0, new_end_byte |-> 0,
     start_position |-> <<0, 0>>, old_end_position |-> <<0, 0>>,
     new_end_position |-> <<0, 0>>]

\* `edit.unwrap_or(InputEdit { start_byte: 0, old_end_byte: 0, new_end_byte: text.len(), .. })`
default_edit(t) ==
    [start_byte |-> 0, old_end_byte |-> 0, new_end_byte |-> Len(t),
     start_position |-> <<0, 0>>, old_end_position |-> <<0, 0>>,
     new_end_position |-> <<0, 0>>]

\* Whether the edit tells how the text old became the text t: the bytes
\* before start_byte and those from old_end_byte (in t: from new_end_byte)
\* are the same in both.  This is what Tree::edit requires of its caller.
edit_describes(e, old, t) ==
    /\ e.start_byte <= e.old_end_byte /\ e.old_end_byte <= Len(old)
    /\ e.start_byte <= e.new_end_byte /\ e.new_end_byte <= Len(t)
    /\ SubSeq(old, 1, e.start_byte) = SubSeq(t, 1, e.start_byte)
    /\ SubSeq(old, e.old_end_byte + 1, Len(old)) = SubSeq(t, e.new_end_byte + 1, Len(t))

\* `old_tree.edit(&edit)`: the leaves of the tree, one per byte (leaf k
\* spans k..k+1), with the offset each has after the edit and whether the
\* edit invalidated it.  A leaf wholly before start_byte and not touching
\* it stays; a leaf at or after old_end_byte, unless it is the first of the
\* tree, is shifted by new_end_byte - old_end_byte; every other is changed.
tree_edit(old_tree, e) ==
    [k \in 0..(Len(old_tree.src) - 1) |->
        [kind |-> old_tree.src[k + 1],
         offset |-> IF k >= e.old_end_byte THEN k - e.old_end_byte + e.new_end_byte ELSE k,
         changed |-> ~(k + 1 < e.start_byte \/ (k >= e.old_end_byte /\ k > 0))]]

\* `parser.parse_with_options(read text, Some(&old_tree), None)`: the parser
\* walks the offsets of t; where an unchanged leaf of the edited old tree
\* starts it is reused without reading the text, elsewhere t is read.  The
\* read callback yields "" from text.len() on, which ends the parse.
reparse(edited, t) ==
    [src |-> [p \in 1..Len(t) |->
                IF \E k \in DOMAIN edited : ~edited[k].changed /\ edited[k].offset = p - 1
                THEN edited[CHOOSE k \in DOMAIN edited :
                                ~edited[k].changed /\ edited[k].offset = p - 1].kind
                ELSE t[p]]]

\* Mutant: the text is stored before the parse result is looked at.
store_text_first(self_text, new_tree, t) == [text |-> t, tree |-> new_tree]

\* Mutant: the text is stored and the new tree is thrown away.
store_text_only(self_text, new_tree, t) ==
    IF new_tree = {} THEN [text |-> self_text, tree |-> {}]
    ELSE [text |-> t, tree |-> {}]

\* The tail of update: `let Some(new_tree) = new_tree else { return }`, then
\* both fields are set.  self.tree was emptied by take() before the parse.
store(self_text, new_tree, t) ==
    IF new_tree = {} THEN [text |-> self_text, tree |-> {}]
    ELSE [text |-> t, tree |-> new_tree]

\* The whole handler.  empty_ok and reparse_ok are the outcomes of the two
\* parser invocations: parse("", None), evaluated eagerly as the argument of
\* unwrap_or and unwrapped, and parse_with_options over the new text.
update(self_text, self_tree, edit, t, empty_ok, reparse_ok) ==
    IF text_eq(self_text, t)
    THEN [pc |-> "ready", text |-> self_text, tree |-> self_tree, parses |-> 0,
          outcome |-> "noop", applied_edit |-> {}, edited_tree |-> {}]
    ELSE IF ~empty_ok
    THEN [pc |-> "panicked", text |-> self_text, tree |-> {}, parses |-> 1,
          outcome |-> "panicked", applied_edit |-> {}, edited_tree |-> {}]
    ELSE LET e == IF edit = {} THEN default_edit(t) ELSE unwrap(edit)
             old_tree == IF self_tree = {} THEN parse(<<>>) ELSE unwrap(self_tree)
             new_tree == IF reparse_ok THEN {reparse(tree_edit(old_tree, e), t)} ELSE {}
             stored == store(self_text, new_tree, t)
         IN  [pc |-> "ready", text |-> stored.text, tree |-> stored.tree, parses |-> 2,
              outcome |-> IF new_tree = {} THEN "parse_failed" ELSE "ok",
              applied_edit |-> {e}, edited_tree |-> {old_tree}]

----------------------------------------------------------------------------
(* Byte offsets and character boundaries of a text (Rope) *)

\* A character encoded in two bytes (U+00E9); every other one takes one.
Wide == "U+00E9"

\* Bytes of one character.
char_len(c) == IF c = Wide THEN 2 ELSE 1

\* Rope::len(): the length in bytes.
RECURSIVE byte_len(_)
byte_len(t) == IF Len(t) = 0 THEN 0 ELSE char_len(t[1]) + byte_len(Tail(t))

\* The byte offsets at which a character starts, and the end of the text.
char_boundaries(t) == {byte_len(SubSeq(t, 1, k)) : k \in 0..Len(t)}

SetMax(S) == CHOOSE m \in S : \A x \in S : m >= x

\* RopeExt::clip_offset(offset, Bias::Left): the nearest boundary at or before.
clip_offset_left(t, offset) ==
    SetMax({b \in char_boundaries(t) : b <= Max(0, Min(offset, byte_len(t)))})

\* RopeExt::clip_offset(offset, Bias::Right): the nearest boundary at or after.
clip_offset_right(t, offset) ==
    SetMin({b \in char_boundaries(t) : b >= Min(offset, byte_len(t))})

----------------------------------------------------------------------------
(* The compiled query of the engine and the matches a cursor yields *)

\* One `#set!` property of a pattern: the key and the optional value.
Prop(k, v) == [key |-> k, value |-> v]

\* The combined query compiled by build_combined_injections_query:
\* capture_names() and, per pattern, property_settings() in declaration
\* order.  Capture and pattern indices count from 0.
Query ==
    [capture_names |-> <<"injection.content", "keyword", "string">>,
     property_settings |->
        <<(* 0 *) <<>>,
          (* 1 *) <<>>,
          (* 2 *) <<Prop("injection.language", {"css"}), Prop("injection.include-children", {})>>,
          (* 3 *) <<Prop("injection.language", {"nolang"})>>,
          (* 4 *) <<Prop("injection.self", {})>>,
          (* 5 *) <<Prop("injection.parent", {})>>,
          (* 6 *) <<Prop("injection.self", {}), Prop("injection.language", {"css"})>>,
          (* 7 *) <<Prop("injection.language", {"css"})>>,
          (* 8 *) <<Prop("injection.language", {"javascript"})>>>>]

\* The capture each pattern of Query binds: patterns 2..6 and 8 capture
\* @injection.content, pattern 1 @string, patterns 0 and 7 @keyword.
pattern_capture(p) == IF p \in (2..6) \cup {8} THEN 0 ELSE IF p = 1 THEN 2 ELSE 1

\* The highlights query of an injectable language: its capture_names().
InjectionQuery == [capture_names |-> <<"string">>]

\* `query.capture_names().get(index)`: an Option.
capture_name(query, index) ==
    IF index + 1 \in 1..Len(query.capture_names) THEN {query.capture_names[index + 1]} ELSE {}

\* The loop over capture_names() that records a special capture's index.
capture_index(query, name) ==
    {i \in 0..(Len(query.capture_names) - 1) : query.capture_names[i + 1] = name}

\* QueryCapture { node, index }
Capture(index, node) == [index |-> index, node |-> node]

\* A QueryMatch of the engine's query.  `inj` is what the nested parse and
\* query of handle_injection yield on the content of this match: whether
\* the parse of the slice returned a tree, and the matches (each a list of
\* captures, ranges relative to the slice) of the sub-language's query.
QueryMatch(p, caps, inj) == [pattern_index |-> p, captures |-> caps, inj |-> inj]

NoInjection == [parsed |-> TRUE, matches |-> <<>>]

----------------------------------------------------------------------------
(* injection_for_match, handle_injection, match_styles *)

\* The first loop: the node of the last capture whose index is the
\* injection.content index.
RECURSIVE content_node_of(_, _, _, _)
content_node_of(content_capture_index, caps, i, found) ==
    IF i > Len(caps) THEN found
    ELSE content_node_of(content_capture_index, caps, i + 1,
                         IF {caps[i].index} = content_capture_index THEN {caps[i].node} ELSE found)

\* One arm of the match over prop.key: the language name after the property.
language_of_prop(self_language, parent_name, prop, language_name) ==
    CASE prop.key = "injection.language" -> IF language_name = {} THEN prop.value ELSE language_name
      [] prop.key = "injection.self" -> IF language_name = {} THEN {self_language} ELSE language_name
      [] prop.key = "injection.parent" -> IF language_name = {} THEN parent_name ELSE language_name
      [] OTHER -> language_name

\* The second loop, over property_settings(pattern_index) in order.
RECURSIVE language_name_of(_, _, _, _, _)
language_name_of(self_language, parent_name, props, i, language_name) ==
    IF i > Len(props) THEN language_name
    ELSE language_name_of(self_language, parent_name, props, i + 1,
                          language_of_prop(self_language, parent_name, props[i], language_name))

\* (language_name, content_node, include_children)
injection_for_match(self_language, content_capture_index, parent_name, query, query_match) ==
    LET props == query.property_settings[query_match.pattern_index + 1] IN
    [language_name |-> language_name_of(self_language, parent_name, props, 1, {}),
     content_node |-> content_node_of(content_capture_index, query_match.captures, 1, {}),
     include_children |-> \E i \in 1..Len(props) : props[i].key = "injection.include-children"]

\* Mutant: the capture's range in the slice is not shifted by the slice start.
injected_range_unshifted(start_offset, cap_node) == Rng(cap_node.start, cap_node.end)

\* `start_offset + cap_node.start_byte()..start_offset + cap_node.end_byte()`
injected_range(start_offset, cap_node) ==
    Rng(start_offset + cap_node.start, start_offset + cap_node.end)

\* Mutant: no capture of the slice is skipped.
starts_before_never(node_range, last_end) == FALSE

\* `node_range.start < last_end`
starts_before(node_range, last_end) == node_range.start < last_end

\* The loops of handle_injection: st is [cache, last_end]; a capture that
\* starts before last_end is skipped, one that ends after end_offset ends
\* the captures of its match.
RECURSIVE injection_captures(_, _, _, _, _, _)
injection_captures(query, start_offset, end_offset, caps, i, st) ==
    IF i > Len(caps) THEN st
    ELSE LET node_range == injected_range(start_offset, caps[i].node) IN
         IF starts_before(node_range, st.last_end)
         THEN injection_captures(query, start_offset, end_offset, caps, i + 1, st)
         ELSE IF node_range.end > end_offset THEN st
         ELSE IF capture_name(query, caps[i].index) # {}
         THEN injection_captures(query, start_offset, end_offset, caps, i + 1,
                [cache |-> Append(st.cache,
                                  HighlightItem(node_range, unwrap(capture_name(query, caps[i].index)))),
                 last_end |-> node_range.end])
         ELSE injection_captures(query, start_offset, end_offset, caps, i + 1, st)

RECURSIVE injection_matches(_, _, _, _, _, _)
injection_matches(query, start_offset, end_offset, ms, i, st) ==
    IF i > Len(ms) THEN st
    ELSE injection_matches(query, start_offset, end_offset, ms, i + 1,
                           injection_captures(query, start_offset, end_offset, ms[i], 1, st))

\* `self.injection_queries.get(injection_language)` is Some.
has_injection_query(queries, injection_language) == injection_language \in queries

\* handle_injection: the label spans of one injection, in the text's offsets.
handle_injection(self_text, queries, injection_language, node, inj) ==
    LET start_offset == clip_offset_left(self_text, node.start)
        end_offset == clip_offset_right(self_text, node.end)
    IN  IF ~has_injection_query(queries, injection_language) THEN <<>>
        ELSE IF end_offset - start_offset <= 0 THEN <<>>
        ELSE IF registry_language(injection_language) = {} THEN <<>>
        ELSE IF ~unwrap(registry_language(injection_language)).grammar_ok THEN <<>>
        ELSE IF ~inj.parsed THEN <<>>
        ELSE injection_matches(InjectionQuery, start_offset, end_offset, inj.matches, 1,
                               [cache |-> <<>>, last_end |-> start_offset]).cache

\* Mutant: a capture on the range of the last item is pushed under its own name.
push_capture_own_name(items, node_range, highlight_name) ==
    LET last_range == IF Len(items) = 0 THEN Rng(0, 0) ELSE items[Len(items)].range
        last_highlight_name == IF Len(items) = 0 THEN {} ELSE {items[Len(items)].name}
    IN  IF last_range.end <= node_range.start /\ last_highlight_name = {highlight_name}
        THEN Append(items, HighlightItem(Rng(last_range.start, node_range.end), highlight_name))
        ELSE Append(items, HighlightItem(node_range, highlight_name))

\* "Merge near range and same highlight name": the three branches of the
\* capture loop.  Every branch pushes one item.
push_capture(items, node_range, highlight_name) ==
    LET last_range == IF Len(items) = 0 THEN Rng(0, 0) ELSE items[Len(items)].range
        last_highlight_name == IF Len(items) = 0 THEN {} ELSE {items[Len(items)].name}
    IN  IF last_range.end <= node_range.start /\ last_highlight_name = {highlight_name}
        THEN Append(items, HighlightItem(Rng(last_range.start, node_range.end), highlight_name))
        ELSE IF last_range = node_range
        THEN Append(items, HighlightItem(node_range,
                                         IF last_highlight_name = {} THEN highlight_name
                                         ELSE unwrap(last_highlight_name)))
        ELSE Append(items, HighlightItem(node_range, highlight_name))

\* The loop over the captures of a match that is not an injection.
RECURSIVE push_captures(_, _, _, _)
push_captures(query, caps, i, items) ==
    IF i > Len(caps) THEN items
    ELSE IF capture_name(query, caps[i].index) = {} THEN push_captures(query, caps, i + 1, items)
    ELSE push_captures(query, caps, i + 1,
                       push_capture(items, caps[i].node, unwrap(capture_name(query, caps[i].index))))

\* Mutant: the language name alone makes a match an injection.
is_injection_by_name(inj) == inj.language_name # {}

\* `if let (Some(language_name), Some(content_node), _) = ...`
is_injection(inj) == inj.language_name # {} /\ inj.content_node # {}

\* The parent_name argument match_styles passes: None.
parent_of_match_styles(self_language) == {}

\* Mutant: an injection whose language has no matcher is handled as ordinary captures.
match_step_falls_back(self_text, self_language, queries, query, query_match, items) ==
    LET inj == injection_for_match(self_language, capture_index(query, "injection.content"),
                                   parent_of_match_styles(self_language), query, query_match)
    IN  IF is_injection(inj) /\ unwrap(inj.language_name) \in queries
        THEN items \o handle_injection(self_text, queries, unwrap(inj.language_name),
                                       unwrap(inj.content_node), query_match.inj)
        ELSE push_captures(query, query_match.captures, 1, items)

\* One iteration of `while let Some(query_match) = matches.next()`.
match_step(self_text, self_language, queries, query, query_match, items) ==
    LET inj == injection_for_match(self_language, capture_index(query, "injection.content"),
                                   parent_of_match_styles(self_language), query, query_match)
    IN  IF is_injection(inj)
        THEN items \o handle_injection(self_text, queries, unwrap(inj.language_name),
                                       IF inj.content_node = {} THEN Rng(0, 0) ELSE unwrap(inj.content_node),
                                       query_match.inj)
        ELSE push_captures(query, query_match.captures, 1, items)

RECURSIVE match_loop(_, _, _, _, _, _, _)
match_loop(self_text, self_language, queries, query, ms, i, items) ==
    IF i > Len(ms) THEN items
    ELSE match_loop(self_text, self_language, queries, query, ms, i + 1,
                    match_step(self_text, self_language, queries, query, ms[i], items))

\* match_styles: nothing without a tree; ms are the matches the cursor
\* yields for the tree and the byte range.
match_styles(self_text, self_tree, self_language, queries, query, ms) ==
    IF self_tree = {} THEN <<>>
    ELSE match_loop(self_text, self_language, queries, query, ms, 1, <<>>)

----------------------------------------------------------------------------
(* The matches of the cursor *)

\* The match of one leaf of a tree the engine's parser built: the leaf of
\* kind "a" is captured by pattern 0 (@keyword), any other by pattern 1
\* (@string).
leaf_match(kind, k) ==
    LET p == IF kind = "a" THEN 0 ELSE 1
    IN  QueryMatch(p, <<Capture(pattern_capture(p), Rng(k, k + 1))>>, NoInjection)

\* `cursor.set_byte_range(range); cursor.matches(query, root_node, ..)`: the
\* matches of the leaves that intersect the range, in the order of the
\* text.  The plain-text language has an empty query.
cursor_matches(self_language, self_tree, range) ==
    IF self_tree = {} \/ self_language = "text" THEN <<>>
    ELSE LET src == unwrap(self_tree).src
             hit == SortedSeq({k \in 0..(Len(src) - 1) : k < range.end /\ k + 1 > range.start})
         IN  [i \in 1..Len(hit) |-> leaf_match(src[hit[i] + 1], hit[i])]

\* The ranges styles is called with: the byte ranges of a text of the engine.
StyleRanges == {r \in [start : 0..MaxTextLen, end : 0..MaxTextLen] : r.start <= r.end}

\* SyntaxHighlighter::styles as a function of the engine's fields.
self_styles(self_text, self_tree, self_language, queries, range) ==
    styles(range, match_styles(self_text, self_tree, self_language, queries, Query,
                               cursor_matches(self_language, self_tree, range)))

\* The texts whose matches are enumerated: MaxNodeOff bytes of one-byte and
\* two-byte characters.
MatcherTexts ==
    {t \in UNION {[1..n -> {"a", Wide}] : n \in 0..MaxNodeOff} : byte_len(t) = MaxNodeOff}

\* The byte ranges of the nodes of such a text.
NodeRanges == {r \in [start : 0..MaxNodeOff, end : 0..MaxNodeOff] : r.start <= r.end}

\* What the parse and the query of an injected slice of slice_len bytes
\* yield: no tree, or up to MaxSubCaps matches of one @string capture each,
\* on non-empty nodes inside the slice.
SliceResults(slice_len) ==
    LET caps == {<<Capture(0, r)>> : r \in {r \in NodeRanges : r.start < r.end /\ r.end <= slice_len}}
    IN  {[parsed |-> FALSE, matches |-> <<>>]}
        \cup {[parsed |-> TRUE, matches |-> ms] : ms \in UNION {[1..n -> caps] : n \in 0..MaxSubCaps}}

\* The slice of the text handle_injection parses for a content node.
slice_len(t, node) == clip_offset_right(t, node.end) - clip_offset_left(t, node.start)

\* The matches of the injecting pattern 2 on a text: any content node, any
\* result of the slice.
InjectionMatches(t) ==
    UNION {{QueryMatch(2, <<Capture(pattern_capture(2), r)>>, res) : res \in SliceResults(slice_len(t, r))} :
             r \in NodeRanges}

\* The slice results of the injecting pattern among other matches: no
\* match, or one @string capture on the whole slice.
WholeSlice(len) ==
    {NoInjection} \cup
    {[parsed |-> TRUE, matches |-> <<<<Capture(0, Rng(0, len))>>>>] : n \in {len} \ {0}}

\* The nodes a pattern is matched on among other matches: any node for the
\* @keyword pattern 0, a non-empty node at the start of the text for the
\* others.
PatternNodes(p) ==
    IF p = 0 THEN NodeRanges ELSE {r \in NodeRanges : r.start = 0 /\ r.end > 0}

\* The matches of Query on a text: one capture on a node.
Matches(t) ==
    UNION {{QueryMatch(p, <<Capture(pattern_capture(p), r)>>, NoInjection) : r \in PatternNodes(p)} :
             p \in (0..(Len(Query.property_settings) - 1)) \ {2}}
    \cup UNION {{QueryMatch(2, <<Capture(pattern_capture(2), r)>>, res) : res \in WholeSlice(slice_len(t, r))} :
                r \in PatternNodes(2)}

MatchLists(t) == UNION {[1..n -> Matches(t)] : n \in 0..MaxMatches}

----------------------------------------------------------------------------
(* The engine's state machine *)

NoCall ==
    [op |-> "none", arg_lang |-> "", arg_text |-> <<>>, arg_edit |-> {},
     outcome |-> "none", parses |-> 0, prev_text |-> <<>>, prev_tree |-> {},
     prev_arg |-> {}, applied_edit |-> {}, edited_tree |-> {},
     prev_language |-> "", prev_queries |-> {}]

EngineIdle ==
    /\ pc = "start"
    /\ language = ""
    /\ injection_queries = {}
    /\ text = <<>>
    /\ tree = {}
    /\ parse_count = 0
    /\ last_call = NoCall
    /\ accepted_text = <<>>

\* let h = SyntaxHighlighter::new(lang)
New(lang) ==
    /\ pc = "start"
    /\ LET r == new(lang) IN
        /\ pc' = IF r.ok THEN "ready" ELSE "panicked"
        /\ language' = r.language
        /\ injection_queries' = r.injection_queries
        /\ last_call' = [NoCall EXCEPT !.op = "new", !.arg_lang = lang,
                                       !.outcome = IF r.ok THEN "ok" ELSE "panicked"]
    /\ text' = <<>>
    /\ tree' = {}
    /\ UNCHANGED <<parse_count, accepted_text>>
    /\ UNCHANGED pipeline_vars
    /\ UNCHANGED widget_vars

\* h.update(edit, &text).  A caller that passes a descriptor passes one that
\* tells how the stored text became the new one.
Update(edit, t, empty_ok, reparse_ok) ==
    /\ pc = "ready"
    /\ parse_count + 2 <= MaxParses
    /\ \A e \in edit : edit_describes(e, text, t)
    /\ LET r == update(text, tree, edit, t, empty_ok, reparse_ok) IN
        /\ pc' = r.pc
        /\ text' = r.text
        /\ tree' = r.tree
        /\ parse_count' = parse_count + r.parses
        /\ accepted_text' = IF r.outcome \in {"ok", "noop"} THEN t ELSE accepted_text
        /\ last_call' =
             [op |-> "update", arg_lang |-> "", arg_text |-> t, arg_edit |-> edit,
              outcome |-> r.outcome, parses |-> r.parses,
              prev_text |-> text, prev_tree |-> tree,
              prev_arg |-> IF last_call.op = "update" THEN {last_call.arg_text} ELSE {},
              applied_edit |-> r.applied_edit, edited_tree |-> r.edited_tree,
              prev_language |-> language, prev_queries |-> injection_queries]
    /\ UNCHANGED <<language, injection_queries>>
    /\ total_range' = Rng(0, 0)
    /\ matches' = <<>>
    /\ highlights' = <<>>
    /\ styles_arg' = <<>>
    /\ call' = "none"
    /\ result' = <<>>
    /\ result2' = <<>>
    /\ UNCHANGED widget_vars

\* Mutant: styles takes the tree out of the engine.
styles_self_takes_tree(self) == [self EXCEPT !.tree = {}]

\* `&self`: styles and match_styles borrow the engine immutably.
styles_self(self) == self

\* h.styles(&range, &theme): match_styles on the matches of the cursor, the
\* clipping and the theme lookup, unique_styles.
StylesCall(range) ==
    /\ pc = "ready"
    /\ total_range' = range
    /\ matches' = cursor_matches(language, tree, range)
    /\ highlights' = match_styles(text, tree, language, injection_queries, Query, matches')
    /\ styles_arg' = <<>>
    /\ call' = "styles"
    /\ result' = styles(range, highlights')
    /\ result2' = <<>>
    /\ LET self == styles_self([text |-> text, tree |-> tree, language |-> language,
                                injection_queries |-> injection_queries])
       IN  /\ text' = self.text
           /\ tree' = self.tree
           /\ language' = self.language
           /\ injection_queries' = self.injection_queries
    /\ last_call' = [NoCall EXCEPT !.op = "styles", !.outcome = "ok",
                                   !.prev_text = text, !.prev_tree = tree,
                                   !.prev_language = language,
                                   !.prev_queries = injection_queries]
    /\ UNCHANGED <<pc, parse_count, accepted_text>>
    /\ UNCHANGED widget_vars

----------------------------------------------------------------------------
(* PopoverState (src/crates/ui/src/popover.rs) *)

MaxCallbacks == 3   \* cap on the number of on_open_change invocations

NoPopoverCall ==
    [op |-> "none", prev_open |-> FALSE, prev_subscription |-> {},
     prev_callbacks |-> <<>>, prev_on_open_change |-> {}]

\* PopoverState::new(default_open, cx).  invoked is the log of the
\* arguments the callback received.
popover_new(default_open) ==
    [open |-> default_open, on_open_change |-> {}, dismiss_subscription |-> {},
     invoked |-> <<>>]

\* toggle_open: flip, subscribe to DismissEvent or drop the subscription,
\* then call the callback, if one is set, with the new value.
toggle_open(self) ==
    LET flipped == ~self.open IN
    [self EXCEPT !.open = flipped,
                 !.dismiss_subscription = IF flipped THEN {"DismissEvent"} ELSE {},
                 !.invoked = IF self.on_open_change # {} THEN Append(@, flipped) ELSE @]

dismiss(self) == IF self.open THEN toggle_open(self) ELSE self

show(self) == IF ~self.open THEN toggle_open(self) ELSE self

\* The state.update closure of Popover::render: the callback of the element
\* is installed and a forced open state is written without a toggle.
render_update(self, force_open, callback) ==
    [self EXCEPT !.on_open_change = callback,
                 !.open = IF force_open # {} THEN unwrap(force_open) ELSE @]

\* The on_mouse_up handler of the trigger: `state.open = open;
\* state.toggle_open(window, cx)` with the open of the render that built it.
on_mouse_up(self, captured_open) == toggle_open([self EXCEPT !.open = captured_open])

PopoverSelf ==
    [open |-> open, on_open_change |-> on_open_change,
     dismiss_subscription |-> dismiss_subscription, invoked |-> callbacks]

\* The state before any Popover element was rendered.
PopoverIdle ==
    /\ open = popover_new(FALSE).open
    /\ on_open_change = popover_new(FALSE).on_open_change
    /\ dismiss_subscription = popover_new(FALSE).dismiss_subscription
    /\ rendered_open = {}
    /\ callbacks = <<>>
    /\ popover_call = NoPopoverCall

\* A call on the PopoverState leaves it as r.
PopoverCall(op, r) ==
    /\ Len(r.invoked) <= MaxCallbacks
    /\ open' = r.open
    /\ on_open_change' = r.on_open_change
    /\ dismiss_subscription' = r.dismiss_subscription
    /\ callbacks' = r.invoked
    /\ popover_call' = [op |-> op, prev_open |-> open,
                        prev_subscription |-> dismiss_subscription,
                        prev_callbacks |-> callbacks,
                        prev_on_open_change |-> on_open_change]

\* Popover::render: the state is updated and, when the element has a
\* trigger, its handlers capture the open state read after the update.
Render(force_open, callback, has_trigger) ==
    /\ PopoverCall("render", render_update(PopoverSelf, force_open, callback))
    /\ rendered_open' = IF has_trigger THEN {open'} ELSE {}
    /\ UNCHANGED <<engine_vars, pipeline_vars, tab_vars>>

\* state.show(window, cx), from a content closure or the application.
Show ==
    /\ PopoverCall("show", show(PopoverSelf))
    /\ UNCHANGED rendered_open
    /\ UNCHANGED <<engine_vars, pipeline_vars, tab_vars>>

\* state.dismiss(window, cx): a content closure, the Cancel action or a
\* mouse-up outside the content.
Dismiss ==
    /\ PopoverCall("dismiss", dismiss(PopoverSelf))
    /\ UNCHANGED rendered_open
    /\ UNCHANGED <<engine_vars, pipeline_vars, tab_vars>>

\* A mouse-up on the trigger of the last render.
MouseUp ==
    /\ rendered_open # {}
    /\ PopoverCall("mouse_up", on_mouse_up(PopoverSelf, unwrap(rendered_open)))
    /\ UNCHANGED rendered_open
    /\ UNCHANGED <<engine_vars, pipeline_vars, tab_vars>>

\* The entity emits DismissEvent while the subscription is held.
DismissEvent ==
    /\ dismiss_subscription # {}
    /\ PopoverCall("dismiss_event", dismiss(PopoverSelf))
    /\ UNCHANGED rendered_open
    /\ UNCHANGED <<engine_vars, pipeline_vars, tab_vars>>

----------------------------------------------------------------------------
(* PerformanceTab (src/crates/task-manager/src/performance_tab.rs) *)

MAX_HISTORY == 60

MaxSnapshots == 62  \* cap on the number of update_snapshot calls
MaxBusy == 1        \* number of snapshots of a run that differ from the idle one

\* SystemSnapshot, the fields update_snapshot reads.  The idle snapshot
\* takes the zero branches; the quotients of the busy one are exact.
IdleSnapshot ==
    [global_cpu_usage |-> 0, memory |-> [total |-> 0, used |-> 0],
     disks |-> <<>>, networks |-> <<>>]

BusySnapshot ==
    [global_cpu_usage |-> 50, memory |-> [total |-> 4, used |-> 1],
     disks |-> <<[total |-> 10, available |-> 4], [total |-> 10, available |-> 4]>>,
     networks |-> <<[received |-> 1048576000, transmitted |-> 1048576000]>>]

Snapshots == {IdleSnapshot, BusySnapshot}

RECURSIVE sum(_)
\* Iterator::sum over a mapped sequence.
sum(xs) == IF xs = <<>> THEN 0 ELSE Head(xs) + sum(Tail(xs))

\* `if total > 0 { (part as f64 / total as f64) * 100.0 } else { 0.0 }`
percent(part, total) == IF total > 0 THEN (part * 100) \div total ELSE 0

DecimalDigits == <<"0", "1", "2", "3", "4", "5", "6", "7", "8", "9">>

RECURSIVE format(_)
\* format!("{}", n): the decimal digits of n.
format(n) ==
    IF n < 10 THEN <<DecimalDigits[n + 1]>>
    ELSE Append(format(n \div 10), DecimalDigits[(n % 10) + 1])

DataPoint(time, value) == [time |-> time, value |-> value]

\* `self.time_counter += 1`.  The counter is a u32 and the calls are capped
\* at MaxSnapshots, far below its range, so the sum is the plain one.
next_time_counter(n) == n + 1

\* Mutant: the newest point is the one dropped at the cap.
push_back_drop_newest(history, point) ==
    LET pushed == Append(history, point) IN
    IF Len(pushed) > MAX_HISTORY THEN SubSeq(pushed, 1, Len(pushed) - 1) ELSE pushed

\* push_back, then pop_front when the length exceeds MAX_HISTORY.
push_back_capped(history, point) ==
    LET pushed == Append(history, point) IN
    IF Len(pushed) > MAX_HISTORY THEN Tail(pushed) ELSE pushed

\* PerformanceTab::new
tab_new ==
    [cpu_history |-> <<>>, memory_history |-> <<>>, disk_history |-> <<>>,
     network_history |-> <<>>, time_counter |-> 0, current_snapshot |-> {}]

cpu_usage(snapshot) == snapshot.global_cpu_usage

memory_percent(snapshot) == percent(snapshot.memory.used, snapshot.memory.total)

disk_percent(snapshot) ==
    percent(sum([i \in DOMAIN snapshot.disks |->
                    snapshot.disks[i].total - snapshot.disks[i].available]),
            sum([i \in DOMAIN snapshot.disks |-> snapshot.disks[i].total]))

network_mbps(snapshot) ==
    (((sum([i \in DOMAIN snapshot.networks |->
              snapshot.networks[i].received + snapshot.networks[i].transmitted])
       \div 1024) \div 1024) \div 1000)

\* The whole handler.
update_snapshot(self, snapshot) ==
    LET counter == next_time_counter(self.time_counter)
        time_label == format(counter)
    IN  [cpu_history |-> push_back_capped(self.cpu_history,
                                          DataPoint(time_label, cpu_usage(snapshot))),
         memory_history |-> push_back_capped(self.memory_history,
                                             DataPoint(time_label, memory_percent(snapshot))),
         disk_history |-> push_back_capped(self.disk_history,
                                           DataPoint(time_label, disk_percent(snapshot))),
         network_history |-> push_back_capped(self.network_history,
                                              DataPoint(time_label, network_mbps(snapshot))),
         time_counter |-> counter,
         current_snapshot |-> {snapshot}]

TabSelf ==
    [cpu_history |-> cpu_history, memory_history |-> memory_history,
     disk_history |-> disk_history, network_history |-> network_history,
     time_counter |-> time_counter, current_snapshot |-> current_snapshot]

\* The state after PerformanceTab::new.
TabIdle ==
    /\ cpu_history = tab_new.cpu_history
    /\ memory_history = tab_new.memory_history
    /\ disk_history = tab_new.disk_history
    /\ network_history = tab_new.network_history
    /\ time_counter = tab_new.time_counter
    /\ current_snapshot = tab_new.current_snapshot
    /\ snapshots = <<>>

\* The snapshots of the log that are not the idle one.
Busy(log) == {i \in DOMAIN log : log[i] # IdleSnapshot}

\* tab.update_snapshot(snapshot, cx), as the monitoring loop calls it.
UpdateSnapshot(snapshot) ==
    /\ Len(snapshots) < MaxSnapshots
    /\ Cardinality(Busy(Append(snapshots, snapshot))) <= MaxBusy
    /\ LET r == update_snapshot(TabSelf, snapshot) IN
        /\ cpu_history' = r.cpu_history
        /\ memory_history' = r.memory_history
        /\ disk_history' = r.disk_history
        /\ network_history' = r.network_history
        /\ time_counter' = r.time_counter
        /\ current_snapshot' = r.current_snapshot
    /\ snapshots' = Append(snapshots, snapshot)
    /\ UNCHANGED <<engine_vars, pipeline_vars, popover_vars>>

WidgetIdle == PopoverIdle /\ TabIdle

----------------------------------------------------------------------------
(* The specifications *)

Init == EngineIdle /\ PipelineIdle /\ WidgetIdle

Next ==
    \/ \E lang \in LangNames : New(lang)
    \/ \E edit \in {{}} \cup {{e} : e \in Edits}, t \in Texts, empty_ok \in BOOLEAN, reparse_ok \in BOOLEAN :
          Update(edit, t, empty_ok, reparse_ok)
    \/ \E range \in StyleRanges : StylesCall(range)

Spec == Init /\ [][Next]_vars

InitNormalizer ==
    /\ EngineIdle
    /\ WidgetIdle
    /\ matches = <<>>
    /\ call = "none"
    /\ result = <<>>
    /\ result2 = <<>>
    /\ \/ /\ total_range \in Ranges
          /\ highlights \in ItemLists
          /\ styles_arg = themed(highlights)
       \/ /\ total_range = TestRange
          /\ highlights = <<>>
          /\ styles_arg = TestStyles

NextNormalizer == Styles \/ UniqueStyles \/ Renormalize

SpecNormalizer == InitNormalizer /\ [][NextNormalizer]_vars

\* The direct calls of the normalizer alone.
NextFold == UniqueStyles

SpecFold == InitNormalizer /\ [][NextFold]_vars

\* An engine built for "html" that holds the tree of its text.
MatcherEngine ==
    /\ pc = "ready"
    /\ language = new("html").language
    /\ injection_queries = new("html").injection_queries
    /\ text \in MatcherTexts
    /\ tree = {parse(text)}
    /\ parse_count = 0
    /\ last_call = NoCall
    /\ accepted_text = text
    /\ WidgetIdle
    /\ total_range = Rng(0, byte_len(text))
    /\ highlights = <<>>
    /\ styles_arg = <<>>
    /\ call = "none"
    /\ result = <<>>
    /\ result2 = <<>>

\* The engine and the matches the cursor yields on its tree for the whole text.
InitMatcher == MatcherEngine /\ matches \in MatchLists(text)

\* The engine and one match of the injecting pattern.
InitInjection == MatcherEngine /\ matches \in {<<m>> : m \in InjectionMatches(text)}

\* h.styles(&range, &theme) on the matches of the state.
MatchStyles ==
    /\ call = "none"
    /\ highlights' = match_styles(text, tree, language, injection_queries, Query, matches)
    /\ call' = "styles"
    /\ result' = styles(total_range, highlights')
    /\ UNCHANGED <<total_range, matches, styles_arg, result2>>
    /\ UNCHANGED engine_vars
    /\ UNCHANGED widget_vars

NextMatcher == MatchStyles

SpecMatcher == InitMatcher /\ [][NextMatcher]_vars

SpecInjection == InitInjection /\ [][NextMatcher]_vars

\* A PopoverState as use_keyed_state builds it, with either default.
InitPopover ==
    /\ EngineIdle
    /\ PipelineIdle
    /\ TabIdle
    /\ \E default_open \in BOOLEAN :
          /\ open = popover_new(default_open).open
          /\ on_open_change = popover_new(default_open).on_open_change
          /\ dismiss_subscription = popover_new(default_open).dismiss_subscription
    /\ rendered_open = {}
    /\ callbacks = <<>>
    /\ popover_call = NoPopoverCall

NextPopover ==
    \/ \E force_open \in {{}, {TRUE}, {FALSE}}, callback \in {{}, {"on_open_change"}},
          has_trigger \in BOOLEAN : Render(force_open, callback, has_trigger)
    \/ Show
    \/ Dismiss
    \/ MouseUp
    \/ DismissEvent

SpecPopover == InitPopover /\ [][NextPopover]_vars

InitHistory == EngineIdle /\ PipelineIdle /\ PopoverIdle /\ TabIdle

NextHistory == \E snapshot \in Snapshots : UpdateSnapshot(snapshot)

SpecHistory == InitHistory /\ [][NextHistory]_vars

----------------------------------------------------------------------------
(* Properties of the span pipeline (checked under SpecNormalizer and SpecFold) *)

\* The spans of a list lie inside the range.
Inside(spans, range) ==
    \A i \in 1..Len(spans) :
        range.start <= spans[i].range.start /\ spans[i].range.end <= range.end

\* Every offset of the range lies in some span of the list.
Covered(spans, range) ==
    \A x \in range.start..(range.end - 1) :
        \E i \in 1..Len(spans) : spans[i].range.start <= x /\ x < spans[i].range.end

\* C1: for every range R and every list of label spans handed to `styles`
\* (overlapping, duplicate, partly or wholly outside R), the returned spans
\* union to exactly R: none starts before R.start or ends after R.end, and
\* no offset of R is left uncovered.
C1_StylesUnionIsExactlyR ==
    call = "styles" => Inside(result, total_range) /\ Covered(result, total_range)

\* C2: for every range and every non-empty input list, the output of
\* unique_styles is sorted and pairwise non-overlapping: consecutive output
\* spans a, b satisfy a.start < a.end <= b.start < b.end.
C2_UniqueStylesSortedDisjoint ==
    (call = "unique_styles" /\ Len(styles_arg) > 0) =>
        \A i \in 1..(Len(result) - 1) :
            /\ result[i].range.start < result[i].range.end
            /\ result[i].range.end <= result[i + 1].range.start
            /\ result[i + 1].range.start < result[i + 1].range.end

\* C2 witness: two partially overlapping input spans were normalized into
\* several output spans.
C2_Witness ==
    /\ call = "unique_styles"
    /\ Len(result) >= 2
    /\ \E i, j \in 1..Len(styles_arg) :
        /\ styles_arg[i].range.start < styles_arg[j].range.start
        /\ styles_arg[j].range.start < styles_arg[i].range.end
        /\ styles_arg[i].range.end < styles_arg[j].range.end

\* C3: when matching produced no label spans, `styles` returns exactly one
\* span, whose range is R and whose style is the fully-default style.
C3_NoLabelSpansGiveOneDefaultSpan ==
    (call = "styles" /\ highlights = <<>>) =>
        result = <<Styled(total_range, DefaultStyle)>>

\* C3 witness: `styles` ran on an empty list over a non-empty range.
C3_Witness ==
    /\ call = "styles"
    /\ highlights = <<>>
    /\ total_range.start < total_range.end
    /\ Len(result) = 1

\* C4: the regression input of test_unique_styles over [0,65) normalizes to
\* exactly the twelve expected spans, in order.
C4_RegressionCase ==
    (call = "unique_styles" /\ total_range = TestRange /\ styles_arg = TestStyles) =>
        result = TestExpected

\* C4 witness: unique_styles ran on the regression input and returned 12 spans.
C4_Witness ==
    /\ call = "unique_styles"
    /\ total_range = TestRange
    /\ styles_arg = TestStyles
    /\ Len(result) = 12

\* C5: normalization is idempotent: for an input list lying inside R,
\* normalizing the output again returns the same spans, styles and order.
C5_Idempotent ==
    (call = "renormalized" /\ Inside(styles_arg, total_range)) => result2 = result

\* C5 witness: a list of overlapping spans inside R was normalized twice, and the
\* first pass changed it.
C5_Witness ==
    /\ call = "renormalized"
    /\ Inside(styles_arg, total_range)
    /\ Len(styles_arg) >= 2
    /\ Len(result) >= 2
    /\ result # styles_arg
    /\ \E i \in 1..Len(result) : result[i].style # DefaultStyle

\* The label span, clipped to the requested range, shares an offset with the range.
Overlaps(item, range) ==
    /\ clip(item.range, total_range).start < range.end
    /\ range.start < clip(item.range, total_range).end

\* C15: a label span whose label has no entry in the theme gets the
\* fully-default style and styles returns: a returned span that only label
\* spans without a theme entry overlap has every attribute unset.
C15_UnknownLabelGetsDefaultStyle ==
    call = "styles" =>
        \A j \in 1..Len(result) :
            (\A i \in 1..Len(highlights) :
                Overlaps(highlights[i], result[j].range) => theme_style(highlights[i].name) = {})
            => result[j].style = DefaultStyle

\* C15 witness: styles returned for a label span without a theme entry
\* next to one with an entry; the former's offsets are unstyled.
C15_Witness ==
    /\ call = "styles"
    /\ \E i, k \in 1..Len(highlights), j \in 1..Len(result) :
          /\ theme_style(highlights[i].name) = {}
          /\ theme_style(highlights[k].name) # {}
          /\ Overlaps(highlights[i], result[j].range)
          /\ ~Overlaps(highlights[k], result[j].range)
          /\ result[j].style = DefaultStyle
    /\ \E j \in 1..Len(result) : result[j].style # DefaultStyle

\* The list the normalizer was called with: by styles, the clipped and
\* themed label spans; by a direct call, its argument.
Input == IF call = "styles" THEN styled_items(total_range, highlights) ELSE styles_arg

\* The normalizer has returned (from styles or from a direct call).
Normalized == call \in {"styles", "unique_styles"}

\* The spans of the list that contain the range.
Containing(spans, range) == {i \in 1..Len(spans) : covers(spans[i].range, range)}

\* C23: style folding is field-wise last-write-wins in input order: every
\* attribute of every output span has the value of the last input span
\* that contains the output span and defines the attribute, and is unset
\* if there is none.
C23_FieldWiseLastWriteWins ==
    call = "unique_styles" =>
        LET input == styles_arg IN
        \A j \in 1..Len(result) :
            LET containing == Containing(input, result[j].range) IN
            \A a \in DOMAIN DefaultStyle :
                LET definers == {i \in containing : input[i].style[a] # "None"} IN
                result[j].style[a] =
                    IF definers = {} THEN "None" ELSE input[SetMax(definers)].style[a]

\* C23 witness: an output span has its colour from one input span and its
\* font style from another one below it.
C23_Witness ==
    /\ call = "unique_styles"
    /\ \E j \in 1..Len(result) :
          /\ result[j].style.color = "red"
          /\ result[j].style.font_style = "italic"

\* The resolved style at one offset: the fold of the input spans that contain it.
StyleAt(x) == unwrap_or_default(top_style(Rng(x, x + 1), Input, 1, {}))

\* C24: the boundaries between consecutive output spans are exactly the
\* offsets strictly inside R at which the resolved style changes or an
\* input span ends (for a direct call: on input spans inside R).
C24_BoundariesAreStyleChangesAndSpanEnds ==
    (Normalized /\ (call = "unique_styles" => Inside(Input, total_range))) =>
        {result[j].range.end : j \in 1..(Len(result) - 1)} =
            {x \in (total_range.start + 1)..(total_range.end - 1) :
                StyleAt(x - 1) # StyleAt(x) \/ x \in significant_intervals(Input)}

\* The list without its k-th element.
Without(seq, k) == SubSeq(seq, 1, k - 1) \o SubSeq(seq, k + 1, Len(seq))

\* C25: a zero-length input span is dropped: the output is that of the
\* input without it.
C25_ZeroLengthSpansAreDropped ==
    Normalized =>
        \A k \in 1..Len(Input) :
            Input[k].range.start = Input[k].range.end =>
                result = IF call = "styles" THEN styles(total_range, Without(highlights, k))
                         ELSE unique_styles(total_range, Without(styles_arg, k))

\* C26: the normalizer called with an empty list returns one default span
\* covering R.
C26_EmptyInputGivesOneDefaultSpan ==
    (call = "unique_styles" /\ styles_arg = <<>>) =>
        result = <<Styled(total_range, DefaultStyle)>>

----------------------------------------------------------------------------
(* Properties of the engine (checked under Spec) *)

\* The call left the stored text and the tree as it found them and did not parse.
CallWasNoop ==
    /\ pc = "ready"
    /\ last_call.parses = 0
    /\ text = last_call.prev_text
    /\ tree = last_call.prev_tree

\* C6 as stated: the second of two consecutive update calls with identical
\* text, once it has returned, has invoked no parser and left text and tree
\* unchanged, and any update whose text equals the stored text is a no-op.
C6_SecondIdenticalUpdateIsNoop ==
    (last_call.op = "update" /\ pc = "ready"
        /\ (last_call.prev_arg = {last_call.arg_text} \/ last_call.arg_text = last_call.prev_text))
    => CallWasNoop

\* C6 amended: any update whose text equals the stored text is a no-op (no
\* parser invocation, text and tree unchanged), whatever the edit descriptor;
\* so the second of two consecutive calls with identical text is a no-op
\* whenever the first call stored its text.
C6_UpdateWithStoredTextIsNoop ==
    (last_call.op = "update" /\ last_call.arg_text = last_call.prev_text) => CallWasNoop

\* C6 witness: update was called twice in a row with the same text, the
\* second time with an edit descriptor, on an engine holding a tree.
C6_Witness ==
    /\ last_call.op = "update"
    /\ last_call.prev_arg = {last_call.arg_text}
    /\ last_call.arg_text = last_call.prev_text
    /\ last_call.arg_edit # {}
    /\ last_call.prev_tree # {}
    /\ last_call.outcome = "noop"

\* C7: if the reparse inside update fails, the engine's tree and stored text
\* are exactly what they were before the call.
C7_FailedReparseRetainsTreeAndText ==
    (last_call.op = "update" /\ last_call.outcome = "parse_failed") =>
        tree = last_call.prev_tree /\ text = last_call.prev_text

\* C8: update without an edit descriptor and with a different text applies
\* to the previous tree the edit (0, length of the stored text, length of
\* the new text).
C8_DefaultEditReplacesWholeText ==
    (last_call.op = "update" /\ last_call.arg_edit = {}
        /\ last_call.arg_text # last_call.prev_text
        /\ last_call.outcome \in {"ok", "parse_failed"})
    => \E e \in last_call.applied_edit :
          /\ e.start_byte = 0
          /\ e.old_end_byte = Len(last_call.prev_text)
          /\ e.new_end_byte = Len(last_call.arg_text)

BuildFails(lang) ==
    \/ lang \notin DOMAIN LanguageRegistry
    \/ ~LanguageRegistry[lang].grammar_ok
    \/ ~LanguageRegistry[lang].query_ok

\* C10: SyntaxHighlighter::new never fails: for a language whose build
\* fails the engine is built for "text", and no abort reaches the caller.
C10_NewNeverFails ==
    last_call.op = "new" =>
        /\ pc = "ready"
        /\ BuildFails(last_call.arg_lang) => language = "text"
        /\ ~BuildFails(last_call.arg_lang) => language = last_call.arg_lang

\* C10 witness: an engine was requested for a language whose query does not
\* compile and was built for "text".
C10_Witness ==
    /\ last_call.op = "new"
    /\ last_call.arg_lang = "badquery"
    /\ pc = "ready"
    /\ language = "text"

\* The engine a caller gets from new and the single call update(None, t).
fresh_engine(t) == update(<<>>, {}, {}, t, TRUE, TRUE)

C16_UpdateAndStylesNeverAbort ==
    last_call.op \in {"update", "styles"} => pc = "ready"

----------------------------------------------------------------------------
(* Properties of match_styles and the injections (checked under SpecMatcher) *)

\* The elements of a sequence.
Range(seq) == {seq[k] : k \in 1..Len(seq)}

\* The label spans collected when the first i matches have been handled.
Prefix(i) ==
    SubSeq(highlights, 1,
           Len(match_loop(text, language, injection_queries, Query, SubSeq(matches, 1, i), 1, <<>>)))

\* The label spans match i added.
Contribution(i) == SubSeq(highlights, Len(Prefix(i - 1)) + 1, Len(Prefix(i)))

\* What injection_for_match returns for match i when match_styles calls it.
Resolved(i) ==
    injection_for_match(language, capture_index(Query, "injection.content"),
                        parent_of_match_styles(language), Query, matches[i])

\* The name of the j-th capture of match i.
CaptureName(i, j) == unwrap(capture_name(Query, matches[i].captures[j].index))

\* The keys the pattern of match i sets.
PropKeys(i) ==
    LET props == Query.property_settings[matches[i].pattern_index + 1]
    IN  {props[k].key : k \in 1..Len(props)}

\* The literal values the pattern of match i sets as injection.language.
Literals(i) ==
    LET props == Query.property_settings[matches[i].pattern_index + 1]
    IN  UNION {props[k].value : k \in {k \in 1..Len(props) : props[k].key = "injection.language"}}

\* C13: every label span of a match resolved as an injection into a
\* language with a compiled matcher lies between the character-clipped
\* start and end of the content node and is the range of a capture of the
\* slice shifted by the slice start; the first capture of the slice is
\* always among them.
C13_InjectedSpansInsideContentNode ==
    call = "styles" =>
        \A i \in 1..Len(matches) :
            (is_injection(Resolved(i)) /\ unwrap(Resolved(i).language_name) \in injection_queries) =>
                LET node == unwrap(Resolved(i).content_node)
                    start_offset == clip_offset_left(text, node.start)
                    end_offset == clip_offset_right(text, node.end)
                    caps == {m[1].node : m \in Range(matches[i].inj.matches)}
                IN  /\ \A j \in 1..Len(Contribution(i)) :
                          /\ start_offset <= Contribution(i)[j].range.start
                          /\ Contribution(i)[j].range.end <= end_offset
                          /\ \E c \in caps :
                                Contribution(i)[j].range = Rng(start_offset + c.start, start_offset + c.end)
                    /\ matches[i].inj.matches # <<>> =>
                          /\ Contribution(i) # <<>>
                          /\ Contribution(i)[1].range =
                                Rng(start_offset + matches[i].inj.matches[1][1].node.start,
                                    start_offset + matches[i].inj.matches[1][1].node.end)

\* C13 witness: an injection whose content node starts after the start of
\* the text produced a label span.
C13_Witness ==
    /\ call = "styles"
    /\ \E i \in 1..Len(matches) :
          /\ is_injection(Resolved(i))
          /\ unwrap(Resolved(i).language_name) \in injection_queries
          /\ unwrap(Resolved(i).content_node).start > 0
          /\ Contribution(i) # <<>>

\* The matches without match i.
WithoutMatch(i) == SubSeq(matches, 1, i - 1) \o SubSeq(matches, i + 1, Len(matches))

\* C14: a match that resolves an injection language for which the engine
\* has no compiled matcher adds no label span, and the label spans of the
\* call are those of the other matches.
C14_NoMatcherNoSpans ==
    call = "styles" =>
        \A i \in 1..Len(matches) :
            (is_injection(Resolved(i)) /\ unwrap(Resolved(i).language_name) \notin injection_queries) =>
                /\ Contribution(i) = <<>>
                /\ highlights = match_styles(text, tree, language, injection_queries, Query,
                                             WithoutMatch(i))

\* C14 witness: an injection into a language that is not registered, on a
\* non-empty node, was followed by a match that added a label span.
C14_Witness ==
    /\ call = "styles"
    /\ Len(matches) = 2
    /\ is_injection(Resolved(1))
    /\ unwrap(Resolved(1).language_name) \notin DOMAIN LanguageRegistry
    /\ unwrap(Resolved(1).content_node).start < unwrap(Resolved(1).content_node).end
    /\ Len(highlights) = 1

\* C17: the injection language is resolved by a fixed priority, whatever
\* the order of the pattern's properties: the literal injection.language
\* value, else with injection.self the engine's language, else with
\* injection.parent the language name the calling layer handed over.
C17_ResolutionPriorityIsOrderIndependent ==
    call = "styles" =>
        \A i \in 1..Len(matches) :
            Resolved(i).language_name =
                IF Literals(i) # {} THEN Literals(i)
                ELSE IF "injection.self" \in PropKeys(i) THEN {language}
                ELSE IF "injection.parent" \in PropKeys(i) THEN parent_of_match_styles(language)
                ELSE {}

\* C18: a match with an injection.content capture whose pattern sets only
\* injection.parent resolves to the language of the calling layer and is
\* handled as an injection into it.
C18_ParentResolvesToCallingLayer ==
    call = "styles" =>
        \A i \in 1..Len(matches) :
            (PropKeys(i) = {"injection.parent"} /\ Resolved(i).content_node # {}) =>
                /\ Resolved(i).language_name = {language}
                /\ Contribution(i) =
                      handle_injection(text, injection_queries, language,
                                       unwrap(Resolved(i).content_node), matches[i].inj)

\* Match i was handled as an injection or, capture by capture, as ordinary
\* captures: one label span per capture, on the capture's node unless
\* widened by merge rule 1.
HandledAsInjection(i) ==
    \E name \in Resolved(i).language_name, node \in Resolved(i).content_node :
        Contribution(i) = handle_injection(text, injection_queries, name, node, matches[i].inj)

HandledAsCaptures(i) ==
    /\ Len(Contribution(i)) = Len(matches[i].captures)
    /\ \A j \in 1..Len(matches[i].captures) :
          Contribution(i)[j].range.end = matches[i].captures[j].node.end

\* C19 as stated: a match is handled as an injection only when a language
\* name resolves and an injection.content capture is present; otherwise each
\* capture is handled as an ordinary capture and its label span is named
\* after the capture.
C19_OrdinarySpansNamedAfterCapture ==
    call = "styles" =>
        \A i \in 1..Len(matches) :
            IF Resolved(i).language_name # {} /\ Resolved(i).content_node # {}
            THEN HandledAsInjection(i)
            ELSE /\ HandledAsCaptures(i)
                 /\ \A j \in 1..Len(matches[i].captures) :
                       Contribution(i)[j].name = CaptureName(i, j)

\* C19 amended: the same, but the label span of an ordinary capture whose
\* node range is identical to the range of the span collected just before
\* it carries that span's label; every other is named after the capture.
C19_OrdinarySpansNamedUnlessSameRange ==
    call = "styles" =>
        \A i \in 1..Len(matches) :
            IF Resolved(i).language_name # {} /\ Resolved(i).content_node # {}
            THEN HandledAsInjection(i)
            ELSE /\ HandledAsCaptures(i)
                 /\ \A j \in 1..Len(matches[i].captures) :
                       LET at == Len(Prefix(i - 1)) + j
                       IN  Contribution(i)[j].name =
                             IF at > 1 /\ highlights[at - 1].range = matches[i].captures[j].node
                             THEN highlights[at - 1].name
                             ELSE CaptureName(i, j)

\* C19 witness: a pattern that sets a language but captures no
\* injection.content was handled as ordinary captures, and an ordinary
\* capture on the node of the span before it took that span's label.
C19_Witness ==
    /\ call = "styles"
    /\ Len(matches) = 2
    /\ Resolved(1).language_name # {} /\ Resolved(1).content_node = {}
    /\ Len(Contribution(1)) = 1
    /\ Resolved(2).language_name = {}
    /\ Len(Contribution(2)) = 1
    /\ Contribution(2)[1].name # CaptureName(2, 1)

\* C20: merge rule 1: an ordinary capture that starts exactly at the end
\* of the last span and has its label extends that span in place: the list
\* does not grow and holds last.start..capture.end where the last span was.
C20_AdjacentSameLabelExtendsInPlace ==
    call = "styles" =>
        \A i \in 1..Len(matches) :
            LET before == Prefix(i - 1)
                node == matches[i].captures[1].node
            IN  (/\ ~is_injection(Resolved(i))
                 /\ Len(before) > 0
                 /\ before[Len(before)].range.end = node.start
                 /\ before[Len(before)].name = CaptureName(i, 1))
                => Prefix(i) = [before EXCEPT ![Len(before)] =
                                  HighlightItem(Rng(before[Len(before)].range.start, node.end),
                                                CaptureName(i, 1))]

\* Match i is an ordinary match: its captures go through the capture loop.
Ordinary(i) == ~is_injection(Resolved(i))

\* C21: merge rule 2: an ordinary capture on the range of the last span
\* is recorded with that range and the last span's label, so over a run
\* of captures on one range every recorded span has the label of the first.
C21_SameRangeKeepsEarlierLabel ==
    call = "styles" =>
        /\ \A i \in 1..Len(matches) :
              LET before == Prefix(i - 1)
                  node == matches[i].captures[1].node
              IN  (Ordinary(i) /\ Len(before) > 0 /\ before[Len(before)].range = node)
                  => Contribution(i) = <<HighlightItem(node, before[Len(before)].name)>>
        /\ \A i \in 1..Len(matches), j \in 1..Len(matches) :
              (/\ i <= j
               /\ \A k \in i..j : Ordinary(k) /\ matches[k].captures[1].node = matches[i].captures[1].node
               /\ Contribution(i)[1].range = matches[i].captures[1].node)
              => Contribution(j) = <<HighlightItem(matches[i].captures[1].node, Contribution(i)[1].name)>>

\* C21 witness: a @string capture on the non-empty node of the @keyword
\* span before it was recorded as keyword.
C21_Witness ==
    /\ call = "styles"
    /\ Len(matches) >= 2
    /\ Ordinary(1) /\ Ordinary(2)
    /\ matches[1].captures[1].node = matches[2].captures[1].node
    /\ matches[1].captures[1].node.start < matches[1].captures[1].node.end
    /\ CaptureName(1, 1) = "keyword" /\ CaptureName(2, 1) = "string"
    /\ highlights[2] = HighlightItem(matches[2].captures[1].node, "keyword")

\* C22: merge rule 3: an ordinary capture that neither starts exactly at
\* the end of the last span with its label nor has the last span's range is
\* appended with its own node range and its own label; a capture of the
\* same label after a gap is not merged across the gap.
C22_OtherCaptureAppendedAsIs ==
    call = "styles" =>
        \A i \in 1..Len(matches) :
            LET before == Prefix(i - 1)
                node == matches[i].captures[1].node
            IN  (/\ Ordinary(i)
                 /\ Len(before) > 0 =>
                       /\ ~(before[Len(before)].range.end = node.start
                              /\ before[Len(before)].name = CaptureName(i, 1))
                       /\ before[Len(before)].range # node)
                => Contribution(i) = <<HighlightItem(node, CaptureName(i, 1))>>

\* C28: the label spans of one injection are in ascending order and do
\* not overlap: each starts at or after the end of the one before it, a
\* capture of the slice that starts before the end of the first emitted
\* span being discarded.
C28_InjectedSpansAscendingDisjoint ==
    call = "styles" =>
        \A i \in 1..Len(matches) :
            (is_injection(Resolved(i)) /\ unwrap(Resolved(i).language_name) \in injection_queries) =>
                LET caps == matches[i].inj.matches
                IN  /\ \A j \in 1..(Len(Contribution(i)) - 1) :
                          Contribution(i)[j].range.end <= Contribution(i)[j + 1].range.start
                    /\ Len(Contribution(i)) <=
                          Cardinality({k \in 1..Len(caps) :
                                          k = 1 \/ caps[k][1].node.start >= caps[1][1].node.end})

\* C28 witness: the second capture of the slice overlapped the first and
\* was discarded.
C28_Witness ==
    /\ call = "styles"
    /\ Len(matches) = 1
    /\ Len(matches[1].inj.matches) = 2
    /\ matches[1].inj.matches[2][1].node.start < matches[1].inj.matches[1][1].node.end
    /\ Len(highlights) = 1

\* C27: while the engine holds no tree, styles(R) is exactly one
\* default-styled span with range R, for every R; and an update that
\* parsed its text leaves the engine holding a tree.
C27_NoTreeGivesOneDefaultSpan ==
    /\ (call = "styles" /\ tree = {}) => result = <<Styled(total_range, DefaultStyle)>>
    /\ (last_call.op = "update" /\ last_call.outcome = "ok") =>
          (tree # {} /\ text = last_call.arg_text)

\* C27 witness: styles was called over a non-empty range on an engine that
\* holds a text but no tree, the tree having been lost.
C27_Witness ==
    /\ call = "styles"
    /\ tree = {}
    /\ text # <<>>
    /\ total_range.start < total_range.end
    /\ result = <<Styled(total_range, DefaultStyle)>>

\* C27 witness of the update half: an update of a non-empty text parsed.
C27_WitnessParsed ==
    /\ last_call.op = "update"
    /\ last_call.outcome = "ok"
    /\ last_call.arg_text # <<>>
    /\ tree # {}

----------------------------------------------------------------------------
(* Properties of the widgets (checked under SpecPopover and SpecHistory) *)

\* The last call was show on an open popover or dismiss on a closed one.
NothingToDo ==
    IF popover_call.op = "show" THEN popover_call.prev_open ELSE ~popover_call.prev_open

\* The four history queues.
Histories == <<cpu_history, memory_history, disk_history, network_history>>

\* The value each queue derives from a snapshot.
SampleOf(k, snapshot) ==
    <<cpu_usage(snapshot), memory_percent(snapshot), disk_percent(snapshot),
      network_mbps(snapshot)>>[k]

\* C29: show on an open popover and dismiss on a closed one change nothing
\* and call no callback; otherwise the call flips open and the callback that
\* is set is invoked once, with the new value; and after a show or a dismiss
\* the dismiss subscription is held exactly when the popover is open.
C29_CallbackOncePerChange ==
    popover_call.op \in {"show", "dismiss"} =>
        /\ IF NothingToDo
           THEN /\ open = popover_call.prev_open
                /\ callbacks = popover_call.prev_callbacks
                /\ dismiss_subscription = popover_call.prev_subscription
           ELSE /\ open = ~popover_call.prev_open
                /\ on_open_change # {} => callbacks = Append(popover_call.prev_callbacks, open)
        /\ (dismiss_subscription # {}) <=> open

\* C30: after n calls of update_snapshot the four queues have the length
\* min(n, MAX_HISTORY) and hold, in arrival order, the samples of the last
\* snapshots under the time labels n-len+1 .. n.
C30_HistoriesHoldLastSixty ==
    LET n == Len(snapshots)
        len == Min(n, MAX_HISTORY)
    IN  \A k \in 1..4 :
            /\ Len(Histories[k]) = len
            /\ Len(Histories[k]) <= MAX_HISTORY
            /\ \A i \in 1..len :
                  /\ Histories[k][i].time = format(n - len + i)
                  /\ Histories[k][i].value = SampleOf(k, snapshots[n - len + i])

\* C30 witness: two points were dropped and a busy sample is still held.
C30_Witness ==
    /\ Len(snapshots) = MAX_HISTORY + 2
    /\ Len(cpu_history) = MAX_HISTORY
    /\ cpu_history[1].time = <<"3">>
    /\ cpu_history[MAX_HISTORY].time = <<"6", "2">>
    /\ \E i \in 1..MAX_HISTORY : cpu_history[i].value = cpu_usage(BusySnapshot)

====
